---- MODULE Spec2Model ----
(***************************************************************************)
(* Model of dsa_flashcards.py: the SQLite card store (tables cards and     *)
(* scheduling), the three selectors (anki_select_card, random_select_card, *)
(* get_card_by_name) and the review write (display_card ->                 *)
(* evaluate_difficulty -> update_card_in_db).                              *)
(*                                                                         *)
(* Time is counted in half-second ticks.  A datetime is a tick number; its *)
(* isoformat() text is a sequence of ASCII codes.  Ease is kept in tenths  *)
(* (2.5 is 25).  Text (card names, due strings) is a sequence of ASCII     *)
(* codes, so that lower() and SQLite's text comparison are computed.       *)
(***************************************************************************)
EXTENDS Integers, Sequences, FiniteSets, TLC

\* ------------------------------------------------------------------ bounds
MaxTime == 2

\* --------------------------------------------------------------- constants
SeedInterval == 0
SeedRepetitions == 0
SeedEase == 25

\* ------------------------------------------------------------ text helpers
ChPlus == 43
ChDot == 46
ChZero == 48

Lower(s) == [i \in 1..Len(s) |-> IF s[i] >= 65 /\ s[i] <= 90 THEN s[i] + 32 ELSE s[i]]

RECURSIVE StrLess(_, _)
\* SQLite BINARY collation on TEXT: bytewise, a proper prefix sorts first.
StrLess(a, b) ==
    IF b = <<>> THEN FALSE
    ELSE IF a = <<>> THEN TRUE
    ELSE IF a[1] < b[1] THEN TRUE
    ELSE IF a[1] > b[1] THEN FALSE
    ELSE StrLess(Tail(a), Tail(b))

StrLeq(a, b) == a = b \/ StrLess(a, b)

\* datetime.isoformat() of an aware UTC datetime: "...SS[.ffffff]+00:00";
\* only the seconds, the optional fraction and the start of the offset vary
\* or matter for ordering, so the text is <<S, S>> [ <<".", "5">> ] <<"+">>.
\* The fraction is omitted when the microsecond field is 0.
IsoFormat(t) ==
    <<ChZero + ((t \div 2) \div 10), ChZero + ((t \div 2) % 10)>>
        \o (IF t % 2 # 0 THEN <<ChDot, ChZero + 5>> ELSE <<>>)
        \o <<ChPlus>>

FromIsoFormat(s) ==
    2 * ((s[1] - ChZero) * 10 + (s[2] - ChZero))
        + (IF s[3] = ChDot THEN 1 ELSE 0)

\* ------------------------------------------------------------- deck source
NameTw == <<84, 119>>
NameLr == <<76, 114>>
NameHq == <<72, 113>>
NameFx == <<70, 120>>

CardA == [card_uuid |-> "uA", card_name |-> NameTw, deck_name |-> "main"]
CardB == [card_uuid |-> "uB", card_name |-> NameLr, deck_name |-> "main"]
CardC == [card_uuid |-> "uC", card_name |-> NameHq, deck_name |-> "main"]
CardF == [card_uuid |-> "uF", card_name |-> NameFx, deck_name |-> "other"]

DeckMain == <<CardA, CardB>>
DeckOther == <<CardF>>
Deck3 == <<CardA, CardB, CardC>>
Decks == {DeckMain, DeckOther}

\* the names given to --card
LookupNames == {NameTw, Lower(NameTw), <<84, 87>>, <<122, 122>>}

NoCard == [card_uuid |-> "none", card_name |-> <<>>, deck_name |-> "none"]
NoSched == [interval |-> -1, repetitions |-> -1, ease |-> -1, due |-> -1]
NULL == <<>>
NoId == 0

Ratings == {"Again", "Hard", "Good", "Easy"}

\* ---------------------------------------------------------------- the store
EmptyDb == [cards |-> <<>>, scheduling |-> <<>>, seq |-> 0]

Range(s) == {s[i] : i \in 1..Len(s)}

\* next(c for c in deck if c['card_uuid'] == card_uuid, None)
FindByUuid(deck, uuid) ==
    IF \E i \in 1..Len(deck) : deck[i].card_uuid = uuid
    THEN deck[CHOOSE i \in 1..Len(deck) :
                 /\ deck[i].card_uuid = uuid
                 /\ \A j \in 1..(i - 1) : deck[j].card_uuid # uuid]
    ELSE NoCard

\* next(card for card in deck if card['card_name'].lower() == card_name.lower(), None)
FindByName(deck, card_name) ==
    IF \E i \in 1..Len(deck) : Lower(deck[i].card_name) = Lower(card_name)
    THEN deck[CHOOSE i \in 1..Len(deck) :
                 /\ Lower(deck[i].card_name) = Lower(card_name)
                 /\ \A j \in 1..(i - 1) : Lower(deck[j].card_name) # Lower(card_name)]
    ELSE NoCard

\* SELECT id FROM cards WHERE card_uuid = ?   (fetchone)
SelectCardId(db, uuid) ==
    IF \E i \in 1..Len(db.cards) : db.cards[i].card_uuid = uuid
    THEN db.cards[CHOOSE i \in 1..Len(db.cards) :
                     /\ db.cards[i].card_uuid = uuid
                     /\ \A j \in 1..(i - 1) : db.cards[j].card_uuid # uuid].id
    ELSE NoId

\* INSERT INTO cards (card_uuid, deck_name, card_name): id is AUTOINCREMENT,
\* card_uuid and card_name are UNIQUE; a violation raises IntegrityError.
InsertCard(db, card) ==
    IF \E r \in Range(db.cards) :
           r.card_uuid = card.card_uuid \/ r.card_name = card.card_name
    THEN [ok |-> FALSE, db |-> db, lastrowid |-> NoId]
    ELSE [ok |-> TRUE,
          db |-> [db EXCEPT !.cards = Append(db.cards,
                                [id |-> db.seq + 1, card_uuid |-> card.card_uuid,
                                 deck_name |-> card.deck_name,
                                 card_name |-> card.card_name]),
                            !.seq = db.seq + 1],
          lastrowid |-> db.seq + 1]

\* SELECT ... FROM scheduling WHERE card_id = ?   (fetchone)
SelectScheduling(db, card_id) ==
    IF \E i \in 1..Len(db.scheduling) : db.scheduling[i].card_id = card_id
    THEN db.scheduling[CHOOSE i \in 1..Len(db.scheduling) :
                     /\ db.scheduling[i].card_id = card_id
                     /\ \A j \in 1..(i - 1) : db.scheduling[j].card_id # card_id]
    ELSE [card_id |-> NoId, interval |-> -1, repetitions |-> -1, ease |-> -1, due |-> NULL]

\* The scheduling table is a rowid table keyed by card_id: rows are kept in
\* key order.
InsertSorted(rows, row) ==
    LET before == SelectSeq(rows, LAMBDA r : r.card_id <= row.card_id)
        after == SelectSeq(rows, LAMBDA r : r.card_id > row.card_id)
    IN  before \o <<row>> \o after

\* INSERT INTO scheduling: card_id is the PRIMARY KEY.
InsertScheduling(db, card_id, card) ==
    IF \E r \in Range(db.scheduling) : r.card_id = card_id
    THEN [ok |-> FALSE, db |-> db]
    ELSE [ok |-> TRUE,
          db |-> [db EXCEPT !.scheduling = InsertSorted(db.scheduling,
                                [card_id |-> card_id, interval |-> card.interval,
                                 repetitions |-> card.repetitions, ease |-> card.ease,
                                 due |-> IF card.due = -1 THEN NULL ELSE IsoFormat(card.due)])]]

\* UpdateScheduling without its WHERE clause: every row takes the new values.
UpdateSchedulingAllRows(db, card_id, card) ==
    [db EXCEPT !.scheduling =
        [i \in 1..Len(db.scheduling) |->
            [card_id |-> db.scheduling[i].card_id, interval |-> card.interval,
             repetitions |-> card.repetitions, ease |-> card.ease,
             due |-> IF card.due = -1 THEN NULL ELSE IsoFormat(card.due)]]]

\* UPDATE scheduling SET interval, repetitions, ease, due WHERE card_id = ?
UpdateScheduling(db, card_id, card) ==
    [db EXCEPT !.scheduling =
        [i \in 1..Len(db.scheduling) |->
            IF db.scheduling[i].card_id = card_id
            THEN [card_id |-> card_id, interval |-> card.interval,
                  repetitions |-> card.repetitions, ease |-> card.ease,
                  due |-> IF card.due = -1 THEN NULL ELSE IsoFormat(card.due)]
            ELSE db.scheduling[i]]]

\* FROM cards c JOIN scheduling s ON c.id = s.card_id
JoinRows(db) ==
    {[card_id |-> c.id, card_uuid |-> c.card_uuid, interval |-> s.interval,
      repetitions |-> s.repetitions, ease |-> s.ease, due |-> s.due] :
        <<c, s>> \in {p \in Range(db.cards) \X Range(db.scheduling) : p[1].id = p[2].card_id}}

\* ORDER BY s.due ASC LIMIT 1: NULL sorts first; the order among equal due
\* values is not fixed by the query, so every minimal row is a possible answer.
FirstByDue(rows) ==
    {r \in rows : \A q \in rows : r.due = NULL \/ (q.due # NULL /\ StrLeq(r.due, q.due))}

\* The row's columns as the Card the selectors build from it.
CardOfRow(row, now) ==
    [interval |-> row.interval, repetitions |-> row.repetitions, ease |-> row.ease,
     due |-> IF row.due # NULL THEN FromIsoFormat(row.due) ELSE now]

SeedCard(now) ==
    [interval |-> SeedInterval, repetitions |-> SeedRepetitions, ease |-> SeedEase, due |-> now]

Returned(db, card, sched) == [db |-> db, status |-> "returned", card |-> card, sched |-> sched]
Raised(db, exc) == [db |-> db, status |-> exc, card |-> NoCard, sched |-> NoSched]

\* The scheduling row stored for a card identity, and the state it holds.
RowOf(store, uuid) == SelectScheduling(store, SelectCardId(store, uuid))
HasState(store, uuid) == RowOf(store, uuid).card_id # NoId
StateOf(store, uuid) == CardOfRow(RowOf(store, uuid), -1)

\* -------------------------------------------------------------- selectors
\* CardIdFor with the row id read before the INSERT instead of after it.
CardIdForStaleRowid(db, card_data) ==
    IF SelectCardId(db, card_data.card_uuid) # NoId
    THEN [ok |-> TRUE, db |-> db, card_id |-> SelectCardId(db, card_data.card_uuid)]
    ELSE [ok |-> InsertCard(db, card_data).ok,
          db |-> InsertCard(db, card_data).db,
          card_id |-> db.seq]

\* The get-or-insert of the cards row that opens every fallback / selector:
\* SELECT id; if absent INSERT and take cursor.lastrowid.  The same text is
\* at lines 172-182, 290-300 and 340-350.
CardIdFor(db, card_data) ==
    IF SelectCardId(db, card_data.card_uuid) # NoId
    THEN [ok |-> TRUE, db |-> db, card_id |-> SelectCardId(db, card_data.card_uuid)]
    ELSE [ok |-> InsertCard(db, card_data).ok,
          db |-> InsertCard(db, card_data).db,
          card_id |-> InsertCard(db, card_data).lastrowid]

\* AnkiFirstScheduled with the second query lacking its ORDER BY.
AnkiFirstScheduledUnordered(deck, db, now) ==
    UNION {
        IF FindByUuid(deck, row.card_uuid) # NoCard
        THEN {Returned(db, FindByUuid(deck, row.card_uuid), CardOfRow(row, now))}
        ELSE {Returned(db, NoCard, SeedCard(now)), Raised(db, "TypeError")}
      : row \in JoinRows(db) }

\* Lines 200-222: the random pick already has a scheduling row.  The second
\* query takes the first row by due of the whole store; if its card is not
\* in the deck, card_data has been overwritten with None and line 221 builds
\* Card(interval=..., ...) with keyword arguments of the external class:
\* the call either raises TypeError or the function returns (None, seed).
AnkiFirstScheduled(deck, db, now) ==
    UNION {
        IF FindByUuid(deck, row.card_uuid) # NoCard
        THEN {Returned(db, FindByUuid(deck, row.card_uuid), CardOfRow(row, now))}
        ELSE {Returned(db, NoCard, SeedCard(now)), Raised(db, "TypeError")}
      : row \in FirstByDue(JoinRows(db)) }

\* Lines 168-198: random.choice(deck) is deck[pick].
AnkiFallback(deck, db, now, pick) ==
    LET card_data == deck[pick]
        got == CardIdFor(db, card_data)
    IN  IF ~got.ok THEN {Raised(db, "IntegrityError")}
        ELSE IF SelectScheduling(got.db, got.card_id).card_id = NoId
        THEN {Returned(InsertScheduling(got.db, got.card_id, SeedCard(now)).db,
                       card_data, SeedCard(now))}
        ELSE AnkiFirstScheduled(deck, got.db, now)

\* Lines 143-151: the rows the first query can answer with (WHERE s.due IS
\* NOT NULL AND s.due <= now.isoformat() ORDER BY s.due ASC LIMIT 1).
DueRows(db, now) ==
    {r \in JoinRows(db) : r.due # NULL /\ StrLeq(r.due, IsoFormat(now))}

\* anki_select_card: the set of (store, result) pairs the call can end with.
AnkiSelectCard(deck, db, now, pick) ==
    IF FirstByDue(DueRows(db, now)) = {}
    THEN AnkiFallback(deck, db, now, pick)
    ELSE UNION {
            IF FindByUuid(deck, row.card_uuid) # NoCard
            THEN {Returned(db, FindByUuid(deck, row.card_uuid), CardOfRow(row, now))}
            ELSE AnkiFallback(deck, db, now, pick)
          : row \in FirstByDue(DueRows(db, now)) }

\* random_select_card handing out a fresh seed state although a row exists.
RandomSelectCardReseeds(deck, db, now, pick) ==
    LET card_data == deck[pick]
        got == CardIdFor(db, card_data)
        sched_row == SelectScheduling(got.db, got.card_id)
    IN  IF ~got.ok THEN Raised(db, "IntegrityError")
        ELSE IF sched_row.card_id # NoId
        THEN Returned(got.db, card_data, SeedCard(now))
        ELSE Returned(InsertScheduling(got.db, got.card_id, SeedCard(now)).db,
                      card_data, SeedCard(now))

\* random_select_card
RandomSelectCard(deck, db, now, pick) ==
    LET card_data == deck[pick]
        got == CardIdFor(db, card_data)
        sched_row == SelectScheduling(got.db, got.card_id)
    IN  IF ~got.ok THEN Raised(db, "IntegrityError")
        ELSE IF sched_row.card_id # NoId
        THEN Returned(got.db, card_data, CardOfRow(sched_row, now))
        ELSE Returned(InsertScheduling(got.db, got.card_id, SeedCard(now)).db,
                      card_data, SeedCard(now))

\* get_card_by_name: on a match without a scheduling row the else branch
\* (lines 363-368) reads interval, repetitions, ease and due_dt, which are
\* only assigned in the other branch: UnboundLocalError, after the cards row
\* has been inserted and committed.
GetCardByName(deck, db, now, card_name) ==
    LET card_data == FindByName(deck, card_name)
        got == CardIdFor(db, card_data)
        sched_row == SelectScheduling(got.db, got.card_id)
    IN  IF card_data = NoCard
        THEN [db |-> db, status |-> "not_found", card |-> NoCard, sched |-> NoSched]
        ELSE IF ~got.ok THEN Raised(db, "IntegrityError")
        ELSE IF sched_row.card_id # NoId
        THEN Returned(got.db, card_data, CardOfRow(sched_row, now))
        ELSE Raised(got.db, "UnboundLocalError")

\* ------------------------------------------------------------------ review
\* evaluate_difficulty hands the card to Scheduler.review_card of the external
\* package anki_sm_2.  Its result is an input of the program: one of a few
\* sample cards, with a due not before now.
ReviewSamples ==
    {[interval |-> 1, repetitions |-> 1, ease |-> SeedEase],
     [interval |-> 0, repetitions |-> 0, ease |-> SeedEase - 2]}

EvaluateDifficulty(card, rating, now) ==
    {[interval |-> r.interval, repetitions |-> r.repetitions, ease |-> r.ease, due |-> d] :
        r \in ReviewSamples, d \in now..MaxTime}

\* update_card_in_db
UpdateCardInDb(db, card_uuid, card) ==
    LET card_id == SelectCardId(db, card_uuid)
    IN  IF card_id = NoId THEN [ok |-> TRUE, db |-> db]
        ELSE IF SelectScheduling(db, card_id).card_id # NoId
        THEN [ok |-> TRUE, db |-> UpdateScheduling(db, card_id, card)]
        ELSE InsertScheduling(db, card_id, card)

\* ------------------------------------------------------ sequential program
\* db: the store file; deck: the deck loaded by the running process; clock:
\* the wall clock; phase: where the process is (idle: no process / before the
\* selector, selected: between selector and display_card, ended: after an
\* exception or the not-found message); sel, pre: the latest selector call
\* and the store it started from; hist: the log of the session's calls;
\* proc: the locals of the processes of the concurrent runs; run: the
\* arguments and progress of a run of main.
VARIABLES db, deck, clock, phase, sel, pre, hist, proc, run

vars == <<db, deck, clock, phase, sel, pre, hist, proc, run>>

NoCall == [op |-> "none", status |-> "none", card |-> NoCard, sched |-> NoSched,
           pick |-> 0, now |-> 0, name |-> <<>>]

Call(op, out, pick, now, name) ==
    [op |-> op, status |-> out.status, card |-> out.card, sched |-> out.sched,
     pick |-> pick, now |-> now, name |-> name]

NoProc == [pc |-> "start", pick |-> 0, now |-> 0, card_id |-> NoId, sched |-> NoSched,
           new |-> NoSched, exists |-> FALSE, overwrote |-> FALSE]

Procs == {1, 2}

NoRun == [pc |-> "none", has_num |-> FALSE, has_random |-> FALSE, has_card |-> FALSE,
          num |-> 0, card_name |-> <<>>, left |-> 0, reviews |-> 0, outcome |-> "none"]

Init ==
    /\ db = EmptyDb
    /\ deck \in Decks
    /\ clock = 0
    /\ phase = "idle"
    /\ sel = NoCall
    /\ pre = EmptyDb
    /\ hist = <<>>
    /\ proc = [p \in Procs |-> NoProc]
    /\ run = NoRun

\* time passes between two runs (and between the steps of concurrent runs);
\* the time spent at the prompts of display_card is part of DisplayCard
Tick ==
    /\ phase = "idle"
    /\ clock < MaxTime
    /\ clock' = clock + 1
    /\ UNCHANGED <<db, deck, phase, sel, pre, hist, proc, run>>

\* main, lines 459-462: a new run loads the deck named by --deck
LoadDeck ==
    /\ phase = "idle"
    /\ \E d \in Decks : d # deck /\ deck' = d
    /\ UNCHANGED <<db, clock, phase, sel, pre, hist, proc, run>>

Finish(op, out, pick, name) ==
    /\ db' = out.db
    /\ pre' = db
    /\ sel' = Call(op, out, pick, clock, name)
    /\ phase' = IF out.status = "returned" THEN "selected" ELSE "ended"
    /\ UNCHANGED <<deck, clock, proc, run>>

\* main, line 488 / 505
AnkiSelect ==
    /\ phase = "idle"
    /\ \E pick \in 1..Len(deck) :
         \E out \in AnkiSelectCard(deck, db, clock, pick) :
            Finish("anki", out, pick, <<>>)
    /\ UNCHANGED hist

\* main, line 500 / 510
RandomSelect ==
    /\ phase = "idle"
    /\ \E pick \in 1..Len(deck) :
         Finish("random", RandomSelectCard(deck, db, clock, pick), pick, <<>>)
    /\ UNCHANGED hist

\* main, lines 514-521
ByName ==
    /\ phase = "idle"
    /\ \E name \in LookupNames :
         Finish("by_name", GetCardByName(deck, db, clock, name), 0, name)
    /\ UNCHANGED hist

\* display_card, lines 263-264, for the card and state the selector returned,
\* at the time the learner has entered the rating
Store(new_sched_card, later) ==
    /\ db' = UpdateCardInDb(db, sel.card.card_uuid, new_sched_card).db
    /\ clock' = later
    /\ phase' = "idle"
    /\ sel' = NoCall
    /\ pre' = EmptyDb
    /\ UNCHANGED <<deck, proc, run>>

\* display_card: card_data['card_name'] on a None card_data raises TypeError
\* before anything is written; otherwise the rating is evaluated and stored.
DisplayCard ==
    /\ phase = "selected"
    /\ IF sel.card = NoCard
       THEN /\ phase' = "idle"
            /\ sel' = NoCall
            /\ pre' = EmptyDb
            /\ UNCHANGED <<db, deck, clock, proc, run>>
       ELSE \E later \in clock..MaxTime :
              \E new_sched_card \in
                    UNION {EvaluateDifficulty(sel.sched, rating, later) : rating \in Ratings} :
                 Store(new_sched_card, later)
    /\ UNCHANGED hist

\* the learner interrupts a prompt of display_card (input() raises
\* KeyboardInterrupt): the run ends without a write
Interrupt ==
    /\ phase = "selected"
    /\ phase' = "idle"
    /\ sel' = NoCall
    /\ pre' = EmptyDb
    /\ UNCHANGED <<db, deck, clock, hist, proc, run>>

\* the process ends after an exception or the "not found" message
Exit ==
    /\ phase = "ended"
    /\ phase' = "idle"
    /\ sel' = NoCall
    /\ pre' = EmptyDb
    /\ UNCHANGED <<db, deck, clock, hist, proc, run>>

Next ==
    \/ Tick
    \/ LoadDeck
    \/ AnkiSelect
    \/ RandomSelect
    \/ ByName
    \/ DisplayCard
    \/ Interrupt
    \/ Exit

Spec == Init /\ [][Next]_vars

\* ------------------------------------------- a logged session on one deck
\* Runs of main on the three-card deck against a fresh store, due-based or
\* with --random, with every selector call and every stored review appended
\* to hist (at most MaxLog entries).
MaxLog == 3

LogCall(op, out, pick, now, seen) ==
    [op |-> op, status |-> out.status, card |-> out.card, sched |-> out.sched,
     pick |-> pick, now |-> now, seen |-> seen]

SessionInit ==
    /\ db = EmptyDb
    /\ deck = Deck3
    /\ clock = 0
    /\ phase = "idle"
    /\ sel = NoCall
    /\ pre = EmptyDb
    /\ hist = <<>>
    /\ proc = [p \in Procs |-> NoProc]
    /\ run = NoRun

SessionAnki ==
    /\ phase = "idle"
    /\ Len(hist) < MaxLog
    /\ \E pick \in 1..Len(deck) :
         \E out \in AnkiSelectCard(deck, db, clock, pick) :
            /\ Finish("anki", out, pick, <<>>)
            /\ hist' = Append(hist, LogCall("anki", out, pick, clock,
                                            HasState(db, out.card.card_uuid)))

SessionRandom ==
    /\ phase = "idle"
    /\ Len(hist) < MaxLog
    /\ \E pick \in 1..Len(deck) :
         /\ Finish("random", RandomSelectCard(deck, db, clock, pick), pick, <<>>)
         /\ hist' = Append(hist, LogCall("random", RandomSelectCard(deck, db, clock, pick),
                                         pick, clock,
                                         HasState(db, deck[pick].card_uuid)))

SessionDisplay ==
    /\ phase = "selected"
    /\ Len(hist) < MaxLog
    /\ \E later \in clock..MaxTime :
         \E new_sched_card \in
               UNION {EvaluateDifficulty(sel.sched, rating, later) : rating \in Ratings} :
            /\ Store(new_sched_card, later)
            /\ hist' = Append(hist, [op |-> "review", status |-> "stored", card |-> sel.card,
                                     sched |-> new_sched_card, pick |-> 0, now |-> later,
                                     seen |-> TRUE])

SessionNext ==
    \/ Tick
    \/ SessionAnki
    \/ SessionRandom
    \/ SessionDisplay
    \/ Interrupt

SpecSession == SessionInit /\ [][SessionNext]_vars

\* ------------------------------------------------- two concurrent runs
\* Two processes run `--random` on the same deck against the same store file:
\* random_select_card, then display_card's evaluate_difficulty and
\* update_card_in_db.  A step is one SQL statement: the SELECTs run outside a
\* transaction, each INSERT/UPDATE is committed right after it.
\* overwrote records that the process replaced a row that was not the state
\* its review started from.
ConcInit ==
    /\ db = EmptyDb
    /\ deck = DeckMain
    /\ clock = 0
    /\ phase = "idle"
    /\ sel = NoCall
    /\ pre = EmptyDb
    /\ hist = <<>>
    /\ proc = [p \in Procs |-> NoProc]
    /\ run = NoRun

Goto(p, pc) == proc' = [proc EXCEPT ![p].pc = pc]

\* lines 284-287
ConcChoose(p) ==
    /\ proc[p].pc = "start"
    /\ \E pick \in 1..Len(deck) :
         proc' = [proc EXCEPT ![p].pc = "select_id", ![p].pick = pick, ![p].now = clock]
    /\ UNCHANGED <<db, deck, clock, phase, sel, pre, hist, run>>

\* lines 290-292, 299-300
ConcSelectId(p) ==
    /\ proc[p].pc = "select_id"
    /\ proc' = [proc EXCEPT
          ![p].pc = IF SelectCardId(db, deck[proc[p].pick].card_uuid) = NoId
                    THEN "insert_card" ELSE "select_sched",
          ![p].card_id = SelectCardId(db, deck[proc[p].pick].card_uuid)]
    /\ UNCHANGED <<db, deck, clock, phase, sel, pre, hist, run>>

\* lines 293-298
ConcInsertCard(p) ==
    /\ proc[p].pc = "insert_card"
    /\ db' = InsertCard(db, deck[proc[p].pick]).db
    /\ proc' = [proc EXCEPT
          ![p].pc = IF InsertCard(db, deck[proc[p].pick]).ok
                    THEN "select_sched" ELSE "failed",
          ![p].card_id = InsertCard(db, deck[proc[p].pick]).lastrowid]
    /\ UNCHANGED <<deck, clock, phase, sel, pre, hist, run>>

\* lines 302-318
ConcSelectSched(p) ==
    /\ proc[p].pc = "select_sched"
    /\ proc' = [proc EXCEPT
          ![p].pc = IF SelectScheduling(db, proc[p].card_id).card_id # NoId
                    THEN "rate" ELSE "insert_sched",
          ![p].sched = IF SelectScheduling(db, proc[p].card_id).card_id # NoId
                       THEN CardOfRow(SelectScheduling(db, proc[p].card_id), proc[p].now)
                       ELSE SeedCard(proc[p].now)]
    /\ UNCHANGED <<db, deck, clock, phase, sel, pre, hist, run>>

\* lines 319-323
ConcInsertSched(p) ==
    /\ proc[p].pc = "insert_sched"
    /\ db' = InsertScheduling(db, proc[p].card_id, proc[p].sched).db
    /\ Goto(p, IF InsertScheduling(db, proc[p].card_id, proc[p].sched).ok
               THEN "rate" ELSE "failed")
    /\ UNCHANGED <<deck, clock, phase, sel, pre, hist, run>>

\* display_card, line 263
ConcRate(p) ==
    /\ proc[p].pc = "rate"
    /\ \E new_sched_card \in
            UNION {EvaluateDifficulty(proc[p].sched, rating, clock) : rating \in Ratings} :
            proc' = [proc EXCEPT ![p].pc = "update_id", ![p].new = new_sched_card]
    /\ UNCHANGED <<db, deck, clock, phase, sel, pre, hist, run>>

\* update_card_in_db, lines 89-94
ConcUpdateId(p) ==
    /\ proc[p].pc = "update_id"
    /\ proc' = [proc EXCEPT
          ![p].pc = IF SelectCardId(db, deck[proc[p].pick].card_uuid) = NoId
                    THEN "done" ELSE "update_exists",
          ![p].card_id = SelectCardId(db, deck[proc[p].pick].card_uuid)]
    /\ UNCHANGED <<db, deck, clock, phase, sel, pre, hist, run>>

\* update_card_in_db, lines 100-101
ConcUpdateExists(p) ==
    /\ proc[p].pc = "update_exists"
    /\ proc' = [proc EXCEPT
          ![p].pc = "update_write",
          ![p].exists = SelectScheduling(db, proc[p].card_id).card_id # NoId]
    /\ UNCHANGED <<db, deck, clock, phase, sel, pre, hist, run>>

\* update_card_in_db, lines 103-126
ConcUpdateWrite(p) ==
    /\ proc[p].pc = "update_write"
    /\ IF proc[p].exists
       THEN /\ db' = UpdateScheduling(db, proc[p].card_id, proc[p].new)
            /\ proc' = [proc EXCEPT
                  ![p].pc = "done",
                  ![p].overwrote =
                      CardOfRow(SelectScheduling(db, proc[p].card_id), -1) # proc[p].sched]
       ELSE /\ db' = InsertScheduling(db, proc[p].card_id, proc[p].new).db
            /\ Goto(p, IF InsertScheduling(db, proc[p].card_id, proc[p].new).ok
                       THEN "done" ELSE "failed")
    /\ UNCHANGED <<deck, clock, phase, sel, pre, hist, run>>

ConcNext ==
    \/ Tick
    \/ \E p \in Procs :
          \/ ConcChoose(p)
          \/ ConcSelectId(p)
          \/ ConcInsertCard(p)
          \/ ConcSelectSched(p)
          \/ ConcInsertSched(p)
          \/ ConcRate(p)
          \/ ConcUpdateId(p)
          \/ ConcUpdateExists(p)
          \/ ConcUpdateWrite(p)

SpecConc == ConcInit /\ [][ConcNext]_vars

\* ------------------------------------------------------------ runs of main
\* main's handling of --num, --random and --card (lines 448-521) around the
\* selectors: run.pc is the position of the process (none: no process,
\* select: before a selector call, display: before display_card, exit: the
\* process has ended with run.outcome), run.left the remaining iterations of
\* the --num loop and run.reviews the reviews stored by the run.
MaxNum == 3

DeckEmpty == <<>>

MainDecks == {DeckEmpty, DeckMain, Deck3}

\* args.num is None without --num, args.card is None without --card
MainArgs ==
    {a \in [has_num : BOOLEAN, num : 0..MaxNum, has_random : BOOLEAN,
            has_card : BOOLEAN, card_name : LookupNames \cup {<<>>}] :
        /\ (~a.has_num => a.num = 0)
        /\ (a.has_card <=> a.card_name # <<>>)}

\* main, line 494: num not in range(1, len(deck))
NumRejected(num, d) == num \notin 1..(Len(d) - 1)

Started(a, left) ==
    [pc |-> "select", has_num |-> a.has_num, has_random |-> a.has_random,
     has_card |-> a.has_card, num |-> a.num, card_name |-> a.card_name,
     left |-> left, reviews |-> 0, outcome |-> "none"]

Ended(r, outcome) == [r EXCEPT !.pc = "exit", !.left = 0, !.outcome = outcome]

\* main, lines 474-496: the flag conflicts and the --num range check print an
\* error and sys.exit(1); every other combination goes on to a selector
MainDispatch(d, a) ==
    IF a.has_num /\ a.has_card THEN Ended(Started(a, 0), "invalid_input")
    ELSE IF a.has_random /\ a.has_card THEN Ended(Started(a, 0), "invalid_input")
    ELSE IF a.has_num
         THEN IF NumRejected(a.num, d)
              THEN Ended(Started(a, 0), "invalid_input")
              ELSE Started(a, a.num)
         ELSE Started(a, 1)

\* main, lines 487-516: which selector the run calls
SelectorOf(r) ==
    IF r.has_card THEN "by_name"
    ELSE IF r.has_random THEN "random"
    ELSE "anki"

\* The selector call of main.  On an empty deck random_select_card raises
\* IndexError at random.choice(deck) (line 284) and anki_select_card raises
\* it at deck[0] (line 157) or random.choice(deck) (line 169), before any
\* write; get_card_by_name finds no match and returns (None, None).
MainSelectorCall(r, d, store, now) ==
    IF SelectorOf(r) = "by_name" THEN {GetCardByName(d, store, now, r.card_name)}
    ELSE IF Len(d) = 0 THEN {Raised(store, "IndexError")}
    ELSE IF SelectorOf(r) = "random"
         THEN {RandomSelectCard(d, store, now, pick) : pick \in 1..Len(d)}
         ELSE UNION {AnkiSelectCard(d, store, now, pick) : pick \in 1..Len(d)}

MainInit ==
    /\ db = EmptyDb
    /\ deck \in MainDecks
    /\ clock = 0
    /\ phase = "idle"
    /\ sel = NoCall
    /\ pre = EmptyDb
    /\ hist = <<>>
    /\ proc = [p \in Procs |-> NoProc]
    /\ run = NoRun

\* main, lines 457-496: parse the arguments, load the deck, dispatch
MainStart ==
    /\ run.pc = "none"
    /\ \E d \in MainDecks : \E a \in MainArgs :
         /\ deck' = d
         /\ run' = MainDispatch(d, a)
    /\ UNCHANGED <<db, clock, phase, sel, pre, hist, proc>>

\* main, lines 488 / 500 / 505 / 510 / 516-521: the selector call; an
\* exception ends the process, (None, None) of --card prints "not found"
MainSelect ==
    /\ run.pc = "select"
    /\ \E out \in MainSelectorCall(run, deck, db, clock) :
         /\ db' = out.db
         /\ pre' = db
         /\ sel' = Call(SelectorOf(run), out, 0, clock, run.card_name)
         /\ run' = IF out.status = "returned" THEN [run EXCEPT !.pc = "display"]
                   ELSE IF out.status = "not_found" THEN Ended(run, "not_found")
                   ELSE Ended(run, "crashed")
    /\ UNCHANGED <<deck, clock, phase, hist, proc>>

\* main, lines 489 / 501 / 506 / 511 / 518: display_card for the returned
\* pair, then the next iteration of the --num loop or the end of the run
MainDisplay ==
    /\ run.pc = "display"
    /\ IF sel.card = NoCard
       THEN /\ run' = Ended(run, "crashed")
            /\ UNCHANGED <<db, clock>>
       ELSE \E later \in clock..MaxTime :
              \E new_sched_card \in
                    UNION {EvaluateDifficulty(sel.sched, rating, later) : rating \in Ratings} :
                 /\ db' = UpdateCardInDb(db, sel.card.card_uuid, new_sched_card).db
                 /\ clock' = later
                 /\ run' = IF run.left > 1
                           THEN [run EXCEPT !.pc = "select", !.left = @ - 1,
                                            !.reviews = @ + 1]
                           ELSE [Ended(run, "done") EXCEPT !.reviews = @ + 1]
    /\ UNCHANGED <<deck, phase, sel, pre, hist, proc>>

\* the process is gone; the next run starts from the store it left
MainExit ==
    /\ run.pc = "exit"
    /\ run' = NoRun
    /\ sel' = NoCall
    /\ pre' = EmptyDb
    /\ UNCHANGED <<db, deck, clock, phase, hist, proc>>

MainNext ==
    \/ MainStart
    \/ MainSelect
    \/ MainDisplay
    \/ MainExit

SpecMain == MainInit /\ [][MainNext]_vars

\* ------------------------------------------- calls of update_card_in_db
\* update_card_in_db called directly, for any card identity and any new
\* state, on the stores that selector calls on deck main leave behind.  sel
\* is the latest call (its identity and the state passed in) and pre the
\* store it started from.
UpdateInit ==
    /\ db = EmptyDb
    /\ deck = DeckMain
    /\ clock = 0
    /\ phase = "idle"
    /\ sel = NoCall
    /\ pre = EmptyDb
    /\ hist = <<>>
    /\ proc = [p \in Procs |-> NoProc]
    /\ run = NoRun

\* the identities passed as card_uuid: the deck's cards and a card that never
\* gets a card record
UpdateCards == Range(DeckMain) \cup Range(DeckOther)

\* the states passed as card: review results, and one whose due is None
\* (line 97)
UpdateStates(now) ==
    UNION {EvaluateDifficulty(NoSched, rating, now) : rating \in Ratings}
        \cup {[interval |-> 1, repetitions |-> 1, ease |-> SeedEase, due |-> -1]}

\* random_select_card: leaves a card record and its seed row
UpdateSeed ==
    /\ \E pick \in 1..Len(deck) : db' = RandomSelectCard(deck, db, clock, pick).db
    /\ sel' = NoCall
    /\ pre' = EmptyDb
    /\ UNCHANGED <<deck, clock, phase, hist, proc, run>>

\* get_card_by_name on an unseen card: leaves a card record without a row
UpdateSeedRecord ==
    /\ \E c \in Range(deck) : db' = GetCardByName(deck, db, clock, c.card_name).db
    /\ db' # db
    /\ sel' = NoCall
    /\ pre' = EmptyDb
    /\ UNCHANGED <<deck, clock, phase, hist, proc, run>>

\* update_card_in_db(card_uuid, card, db_path)
UpdateCall ==
    /\ \E c \in UpdateCards : \E card \in UpdateStates(clock) :
         /\ db' = UpdateCardInDb(db, c.card_uuid, card).db
         /\ sel' = Call("update", Returned(db, c, card), 0, clock, <<>>)
    /\ pre' = db
    /\ UNCHANGED <<deck, clock, phase, hist, proc, run>>

UpdateNext ==
    \/ Tick
    \/ UpdateSeed
    \/ UpdateSeedRecord
    \/ UpdateCall

SpecUpdate == UpdateInit /\ [][UpdateNext]_vars

\* ------------------------------------------------- vocabulary of the claims
\* Rows whose due timestamp is not after now, by the timestamps themselves.
AllDueRows(store, now) ==
    {r \in JoinRows(store) : r.due # NULL /\ FromIsoFormat(r.due) <= now}
InDeck(d, uuid) == \E i \in 1..Len(d) : d[i].card_uuid = uuid
DeckDueRows(d, store, now) == {r \in AllDueRows(store, now) : InDeck(d, r.card_uuid)}
StaleDueRows(d, store, now) == {r \in AllDueRows(store, now) : ~InDeck(d, r.card_uuid)}
Earliest(rows) == {r \in rows : \A q \in rows : FromIsoFormat(r.due) <= FromIsoFormat(q.due)}

ValidState(c) == c.interval >= 0 /\ c.repetitions >= 0 /\ c.ease > 0 /\ c.due >= 0

\* C1: whenever a card of the active deck has a persisted state with
\* due <= now, anki_select_card returns a deck card whose due is the smallest
\* among the due deck cards, with its stored state, and writes nothing.
C1_ReturnsEarliestDue ==
    (sel.op = "anki" /\ DeckDueRows(deck, pre, sel.now) # {}) =>
        /\ sel.status = "returned"
        /\ \E r \in Earliest(DeckDueRows(deck, pre, sel.now)) :
              /\ sel.card.card_uuid = r.card_uuid
              /\ sel.sched = CardOfRow(r, sel.now)
        /\ db = pre

\* C2: a due row whose identity is not in the deck is left out of the
\* candidates: the call does not fail, does not return that row, and still
\* returns the earliest due deck card when there is one.
C2_StaleRowExcluded ==
    (sel.op = "anki" /\ StaleDueRows(deck, pre, sel.now) # {}) =>
        /\ sel.status = "returned"
        /\ InDeck(deck, sel.card.card_uuid)
        /\ DeckDueRows(deck, pre, sel.now) # {} =>
              \E r \in Earliest(DeckDueRows(deck, pre, sel.now)) :
                 sel.card.card_uuid = r.card_uuid

\* C3: on the three-card deck and a fresh store, after a first due-based
\* call that seeds and returns a card and a stored review that puts its due
\* after the time of the second call, the second due-based call does not
\* return the reviewed card: it seeds and returns one of the other two.
C3_Case ==
    /\ Len(hist) = 3
    /\ hist[1].op = "anki" /\ hist[2].op = "review" /\ hist[3].op = "anki"
    /\ hist[2].sched.due > hist[3].now

C3_SecondCallSkipsReviewed ==
    C3_Case =>
        /\ hist[1].status = "returned" /\ hist[1].sched = SeedCard(hist[1].now)
        /\ hist[3].status = "returned"
        /\ InDeck(deck, hist[3].card.card_uuid)
        /\ hist[3].card # hist[1].card
        /\ ~hist[3].seen
        /\ hist[3].sched = SeedCard(hist[3].now)

\* C4 as stated: with no row due and a random pick that already has a
\* persisted state, the call returns that pick with its persisted state.
C4_Case ==
    /\ sel.op = "anki"
    /\ AllDueRows(pre, sel.now) = {}
    /\ HasState(pre, deck[sel.pick].card_uuid)

C5_TotalOverDeck ==
    sel.op = "anki" =>
        /\ sel.status = "returned"
        /\ InDeck(deck, sel.card.card_uuid)
        /\ ValidState(sel.sched)

\* C6: two random_select_card calls in sequence that pick the same, so far
\* unseen, card: the first creates the seed row with due = its now, both
\* return that seed state, and the identity has exactly one scheduling row.
SchedRowsOf(store, uuid) ==
    {i \in 1..Len(store.scheduling) :
        store.scheduling[i].card_id = SelectCardId(store, uuid)}

C6_FirstOfPair(i) ==
    /\ hist[i].op = "random"
    /\ ~hist[i].seen

C6_Pair(i) ==
    /\ C6_FirstOfPair(i)
    /\ hist[i + 1].op = "random"
    /\ hist[i + 1].pick = hist[i].pick

C6_IdempotentSeeding ==
    /\ (hist # <<>> /\ C6_FirstOfPair(Len(hist))) =>
          /\ hist[Len(hist)].status = "returned"
          /\ hist[Len(hist)].sched = SeedCard(hist[Len(hist)].now)
          /\ Cardinality(SchedRowsOf(db, hist[Len(hist)].card.card_uuid)) = 1
          /\ StateOf(db, hist[Len(hist)].card.card_uuid) = SeedCard(hist[Len(hist)].now)
    /\ (Len(hist) >= 2 /\ C6_Pair(Len(hist) - 1)) =>
          /\ hist[Len(hist)].status = "returned"
          /\ hist[Len(hist)].card = hist[Len(hist) - 1].card
          /\ hist[Len(hist)].sched = hist[Len(hist) - 1].sched
          /\ hist[Len(hist)].sched = SeedCard(hist[Len(hist) - 1].now)
          /\ Cardinality(SchedRowsOf(db, hist[Len(hist)].card.card_uuid)) = 1
          /\ StateOf(db, hist[Len(hist)].card.card_uuid) = hist[Len(hist)].sched

C6_Witness ==
    /\ Len(hist) = 3
    /\ C6_Pair(2)
    /\ hist[3].now > hist[2].now
    /\ hist[3].status = "returned"
    /\ Len(db.scheduling) = 2

\* C7: on a match get_card_by_name returns the matched card; without a
\* scheduling row it creates the seed row and returns the seed state, with a
\* row it returns the persisted state.
C7_ByNameSeedsLikeRandom ==
    (sel.op = "by_name" /\ FindByName(deck, sel.name) # NoCard) =>
        /\ sel.status = "returned"
        /\ sel.card = FindByName(deck, sel.name)
        /\ IF HasState(pre, sel.card.card_uuid)
           THEN sel.sched = StateOf(pre, sel.card.card_uuid) /\ db = pre
           ELSE /\ sel.sched = SeedCard(sel.now)
                /\ StateOf(db, sel.card.card_uuid) = SeedCard(sel.now)

\* C8: a lookup whose name equals a deck card's name up to letter case
\* returns that card, the same for every spelling; a name matching no card
\* gives the not-found result and leaves the store unchanged.
C8_CaseInsensitiveLookup ==
    sel.op = "by_name" =>
        IF \E i \in 1..Len(deck) : Lower(deck[i].card_name) = Lower(sel.name)
        THEN /\ sel.status = "returned"
             /\ Lower(sel.card.card_name) = Lower(sel.name)
             /\ \A n \in LookupNames : Lower(n) = Lower(sel.name) =>
                   GetCardByName(deck, pre, sel.now, n).card.card_uuid = sel.card.card_uuid
        ELSE sel.status = "not_found" /\ sel.card = NoCard /\ sel.sched = NoSched /\ db = pre

\* C10: every card identity has at most one card record and at most one
\* scheduling row, and every scheduling row references a card record.
C10_StoreWellFormed ==
    /\ \A i, j \in 1..Len(db.cards) :
          db.cards[i].card_uuid = db.cards[j].card_uuid => i = j
    /\ \A i, j \in 1..Len(db.scheduling) :
          db.scheduling[i].card_id = db.scheduling[j].card_id => i = j
    /\ \A s \in Range(db.scheduling) : \E c \in Range(db.cards) : c.id = s.card_id

C10_Witness ==
    /\ Len(db.cards) = 3
    /\ Len(db.scheduling) = 3
    /\ \E s \in Range(db.scheduling) : s.repetitions = 1
    /\ phase = "idle"

\* C9: seeding and persisting act as one atomic unit: when two processes
\* select and review the same never-seen card, in any interleaving, the
\* store never holds two rows for the identity, no process fails, and no
\* stored review is replaced by one that was computed without it.
C9_AtomicSeedAndPersist ==
    \A p, q \in Procs :
        (p # q /\ proc[p].pick # 0 /\ proc[p].pick = proc[q].pick) =>
            /\ Cardinality({i \in 1..Len(db.cards) :
                              db.cards[i].card_uuid = deck[proc[p].pick].card_uuid}) <= 1
            /\ Cardinality(SchedRowsOf(db, deck[proc[p].pick].card_uuid)) <= 1
            /\ proc[p].pc # "failed"
            /\ ~proc[p].overwrote

\* C11: a run of main on an empty deck is rejected as invalid input before
\* any selector is called, in the due-based, --random and --card modes
\* alike: it never reaches a selector call and never ends in an exception.
C11_EmptyDeckRejected ==
    (Len(deck) = 0 /\ run.pc # "none")
        => /\ run.pc = "exit"
           /\ run.outcome = "invalid_input"
           /\ sel.op = "none"

\* C13: a run with --num N (and no conflicting flag) on a deck of L cards is
\* rejected exactly when N is outside 1..L, N = L being accepted; a run
\* that was accepted and ended normally has stored N reviews.
C13_NumAcceptedUpToDeckSize ==
    (run.pc # "none" /\ run.has_num /\ ~run.has_card)
        => /\ (run.outcome = "invalid_input") <=> (run.num \notin 1..Len(deck))
           /\ (run.outcome = "done" => run.reviews = run.num)

\* C14: whenever a selector (anki_select_card, random_select_card,
\* get_card_by_name on a match) returns, it returns a card, that card has a
\* scheduling row in the store, and the returned state is the state that row
\* holds, so that the review that follows starts from the stored progress.
C14_ReturnedStateIsPersisted ==
    sel.status = "returned"
        => /\ sel.card # NoCard
           /\ HasState(db, sel.card.card_uuid)
           /\ sel.sched = StateOf(db, sel.card.card_uuid)

\* the card record id of the identity passed to the latest update call
C15_Target == SelectCardId(pre, sel.card.card_uuid)

\* C15: a call of update_card_in_db leaves every card record and every
\* scheduling row of another card as it was, adds no row for another card and
\* deletes no row; when the identity has no card record the store is the
\* store the call started from.
C15_OnlyOwnRowChanges ==
    sel.op = "update"
        => /\ db.cards = pre.cards
           /\ db.seq = pre.seq
           /\ \A r \in Range(pre.scheduling) :
                 r.card_id # C15_Target => r \in Range(db.scheduling)
           /\ \A r \in Range(db.scheduling) :
                 r.card_id # C15_Target => r \in Range(pre.scheduling)
           /\ \A r \in Range(pre.scheduling) :
                 \E q \in Range(db.scheduling) : q.card_id = r.card_id
           /\ (C15_Target = NoId => db = pre)

\* a recorded card's row was rewritten while another card's row, holding
\* other values, was in the store
C15_Witness ==
    /\ sel.op = "update"
    /\ C15_Target # NoId
    /\ db # pre
    /\ StateOf(db, sel.card.card_uuid) = sel.sched
    /\ \E r \in Range(pre.scheduling) :
          /\ r.card_id # C15_Target
          /\ CardOfRow(r, -1) # sel.sched

====
